---- MODULE Spec2Model ----
(***************************************************************************)
(* Model of ciphey/ciphey.py: the click callback get_name, the entry point *)
(* main (configuration, input selection, format conversion) and decrypt.   *)
(* The Config object, the plugin registry and the searcher live in         *)
(* ciphey.iface, which is outside the modelled source file; they are       *)
(* modelled from the design specification.                                 *)
(*                                                                         *)
(* Text is a sequence of code points, a byte string a sequence of octets;  *)
(* a Value carries its representation ("str" or "bytes").  Command-line    *)
(* tokens and plugin names are sequences of one-character strings.         *)
(***************************************************************************)
EXTENDS Integers, Sequences, FiniteSets, TLC

VARIABLES
    pc,          \* position of the run inside click / main / decrypt / search
    cli,         \* the command line as click parsed it (never written)
    kwargs,      \* the kwargs dictionary of main
    stdin,       \* the standard input stream: [isatty, content, pos]
    fileCfg,     \* what the configuration file holds
    config,      \* the iface.Config object built by main
    pidx,        \* loop index of "for i in params"
    ctext,       \* the value handed to searcher.search
    searchCalls, \* how many times searcher.search was invoked
    spinner,     \* whether config.set_spinner was called
    frontier,    \* searcher: unexpanded SearchNodes, in insertion order
    visited,     \* searcher: global visited set of [value, depth]
    expanded,    \* searcher: number of nodes expanded so far
    outcome,     \* searcher: "none", "running", "accepted", "exhausted", "cancelled"
    res,         \* what search returned to decrypt
    result,      \* what decrypt returned to main
    console,     \* what the run printed
    exc          \* the exception that ended the run, "" when none

vars == <<pc, cli, kwargs, stdin, fileCfg, config, pidx, ctext, searchCalls, spinner,
          frontier, visited, expanded, outcome, res, result, console, exc>>

searchVars == <<frontier, visited, expanded, outcome, res>>

----
\* Bounds of the model.
MaxParams == 2      \* -p tokens on one command line
MaxCount == 2       \* repetitions of -v and of -q
MaxDepth == 2       \* searcher bound: maximum path depth
MaxExpand == 3      \* searcher bound: maximum number of nodes expanded

\* Program constants.
GreppablePenalty == 999     \* "verbosity -= 999"
VerbosityThreshold == 0     \* "config.verbosity < 0"

----
\* Optional values (Python's None).
Some(x) == [some |-> TRUE, v |-> x]
Val(k, d) == [kind |-> k, data |-> d]
EmptyVal == Val("str", <<>>)
NoneVal == [some |-> FALSE, v |-> EmptyVal]     \* None where a Value may stand
NoneName == [some |-> FALSE, v |-> <<>>]        \* None where a name may stand
NoneInt == [some |-> FALSE, v |-> 0]            \* None where a count may stand
NoneFlag == [some |-> FALSE, v |-> FALSE]       \* None where a flag may stand

\* One-character strings for tokens and names.
Dot == "."
Equals == "="

\* Code points and octets used in the inputs.
Space == 32
Newline == 10
Whitespace == {Space, Newline, 9, 11, 12, 13}

Last(s) == s[Len(s)]

----
\* str.split(sep, 1): at most one split, at the first occurrence of sep.
IndexOf(s, c) ==
    IF \E i \in 1..Len(s) : s[i] = c
    THEN CHOOSE i \in 1..Len(s) : s[i] = c /\ \A j \in 1..(i - 1) : s[j] # c
    ELSE 0

SplitOnce(s, c) ==
    LET i == IndexOf(s, c)
    IN IF i = 0 THEN <<s>>
       ELSE <<SubSeq(s, 1, i - 1), SubSeq(s, i + 1, Len(s))>>

\* str.strip(): leading and trailing whitespace removed.
Strip(s) ==
    LET keep == {i \in 1..Len(s) : s[i] \notin Whitespace}
    IN IF keep = {} THEN <<>>
       ELSE LET lo == CHOOSE i \in keep : \A j \in keep : i <= j
                hi == CHOOSE i \in keep : \A j \in keep : j <= i
            IN SubSeq(s, lo, hi)

\* bytes.decode("utf-8"): [ok, data]; ok is FALSE where Python raises
\* UnicodeDecodeError.  One-, two- and three-octet forms.
Cont(b) == b >= 128 /\ b <= 191

RECURSIVE Utf8Decode(_)
Utf8Decode(b) ==
    IF b = <<>> THEN [ok |-> TRUE, data |-> <<>>]
    ELSE IF b[1] < 128
    THEN LET r == Utf8Decode(Tail(b))
         IN [ok |-> r.ok, data |-> <<b[1]>> \o r.data]
    ELSE IF b[1] >= 194 /\ b[1] <= 223 /\ Len(b) >= 2 /\ Cont(b[2])
    THEN LET r == Utf8Decode(SubSeq(b, 3, Len(b)))
         IN [ok |-> r.ok, data |-> <<(b[1] - 192) * 64 + (b[2] - 128)>> \o r.data]
    ELSE IF b[1] >= 224 /\ b[1] <= 239 /\ Len(b) >= 3 /\ Cont(b[2]) /\ Cont(b[3])
    THEN LET cp == (b[1] - 224) * 4096 + (b[2] - 128) * 64 + (b[3] - 128)
             r == Utf8Decode(SubSeq(b, 4, Len(b)))
         IN IF cp < 2048 \/ (cp >= 55296 /\ cp <= 57343)
            THEN [ok |-> FALSE, data |-> <<>>]
            ELSE [ok |-> r.ok, data |-> <<cp>> \o r.data]
    ELSE [ok |-> FALSE, data |-> <<>>]

\* str.encode("utf-8"): ok is FALSE where Python raises UnicodeEncodeError
\* (a lone surrogate).  Code points of the basic plane.
RECURSIVE Utf8Encode(_)
Utf8Encode(s) ==
    IF s = <<>> THEN [ok |-> TRUE, data |-> <<>>]
    ELSE LET cp == s[1]
             r == Utf8Encode(Tail(s))
         IN IF cp < 128 THEN [ok |-> r.ok, data |-> <<cp>> \o r.data]
            ELSE IF cp < 2048
            THEN [ok |-> r.ok,
                  data |-> <<192 + (cp \div 64), 128 + (cp % 64)>> \o r.data]
            ELSE IF cp >= 55296 /\ cp <= 57343
            THEN [ok |-> FALSE, data |-> <<>>]
            ELSE [ok |-> r.ok,
                  data |-> <<224 + (cp \div 4096), 128 + ((cp \div 64) % 64),
                             128 + (cp % 64)>> \o r.data]

----
\* iface.Config and the plugin registry (ciphey.iface).

\* Registry: plugin name -> declared parameter names.  "ez" and "au" are the
\* built-in checker and searcher, "p" a plugin with one declared parameter.
Ez == <<"e", "z">>
Au == <<"a", "u">>
PluginP == <<"p">>
PluginQ == <<"q">>
DefaultDist == <<"d">>
DefaultParam == <<"0">>

Registry == {Ez, Au, PluginP}

Schema(plugin) == IF plugin = PluginP THEN {<<"n">>} ELSE {}

\* Config(): the built-in defaults.
NewConfig ==
    [verbosity |-> 0, format |-> "str", params |-> {},
     checker |-> Ez, searcher |-> Au, default_dist |-> DefaultDist,
     objs |-> [format |-> "unset", checker |-> <<>>, searcher |-> <<>>]]

\* Config.update_param(owner, name, value): params[owner][name] = value.
update_param(cfg, owner, name, value) ==
    [cfg EXCEPT !.params =
        {e \in @ : ~(e.parent = owner /\ e.name = name)}
            \cup {[parent |-> owner, name |-> name, value |-> value]}]

\* Config.update(attrname, value): a value of None leaves the attribute alone.
update(cfg, attrname, value) ==
    IF value.some THEN [cfg EXCEPT ![attrname] = value.v] ELSE cfg

\* Config.update_format(fmt).
update_format(cfg, fmt) == [cfg EXCEPT !.format = fmt]

RECURSIVE MergeParams(_, _)
MergeParams(cfg, entries) ==
    IF entries = {} THEN cfg
    ELSE LET e == CHOOSE x \in entries : TRUE
         IN MergeParams(update_param(cfg, e.parent, e.name, e.value),
                        entries \ {e})

\* Config.load_file: every key the file holds replaces the built-in default.
load_file(cfg, file) ==
    LET c1 == IF file.verbosity.some
              THEN [cfg EXCEPT !.verbosity = file.verbosity.v] ELSE cfg
        c2 == IF file.format.some THEN update_format(c1, file.format.v) ELSE c1
        c3 == update(update(update(c2, "checker", file.checker),
                            "searcher", file.searcher),
                     "default_dist", file.default_dist)
    IN MergeParams(c3, file.params)

\* Registry.resolve(name, params): "" when the plugin can be built, else the
\* error it fails with.
resolve(cfg, plugin) ==
    IF plugin \notin Registry THEN "UnknownPluginError"
    ELSE IF \E e \in cfg.params : e.parent = plugin /\ e.name \notin Schema(plugin)
    THEN "InvalidParameterError"
    ELSE ""

\* Config.complete_config: instantiate the checker and the searcher, fix the
\* format type.  [err, cfg].
complete_config(cfg) ==
    LET e1 == resolve(cfg, cfg.checker)
        e2 == resolve(cfg, cfg.searcher)
    IN IF e1 # "" THEN [err |-> e1, cfg |-> cfg]
       ELSE IF e2 # "" THEN [err |-> e2, cfg |-> cfg]
       ELSE [err |-> "",
             cfg |-> [cfg EXCEPT !.objs = [format |-> cfg.format,
                                           checker |-> cfg.checker,
                                           searcher |-> cfg.searcher]]]

\* The parameter a plugin sees: the configured value, else its own default.
ParamInEffect(cfg, owner, name) ==
    IF \E e \in cfg.params : e.parent = owner /\ e.name = name
    THEN (CHOOSE e \in cfg.params : e.parent = owner /\ e.name = name).value
    ELSE DefaultParam

----
\* click: the text_stdin callback.

\* stream.read(): everything from the current position to the end; the
\* position moves to the end.  [data, stream].
Read(st) ==
    [data |-> SubSeq(st.content, st.pos + 1, Len(st.content)),
     stream |-> [st EXCEPT !.pos = Len(st.content)]]

\* "not value" for an optional str.
Falsy(value) == ~value.some \/ value.v.data = <<>>

\* get_name(ctx, param, value): [value, stream].
get_name(value, st) ==
    IF Falsy(value) /\ ~st.isatty
    THEN LET r1 == Read(st)
             r2 == Read(r1.stream)
         IN [value |-> Some(Val("str", Strip(r2.data))), stream |-> r2.stream]
    ELSE [value |-> value, stream |-> st]

GetName ==
    /\ pc = "click"
    /\ LET r == get_name(cli.text_stdin, stdin)
       IN /\ kwargs' = [kwargs EXCEPT !.text_stdin = r.value]
          /\ stdin' = r.stream
    /\ pc' = "main"
    /\ UNCHANGED <<cli, fileCfg, config, pidx, ctext, searchCalls, spinner,
                   searchVars, result, console, exc>>

----
\* main.

Raise(name) ==
    /\ pc' = "aborted"
    /\ exc' = name

\* "if kwargs['appdirs']: print(...); return None"
AppDirs ==
    /\ pc = "main"
    /\ kwargs.appdirs
    /\ console' = Append(console, [shape |-> "appdirs", value |-> EmptyVal,
                                   path |-> <<>>])
    /\ pc' = "done"
    /\ UNCHANGED <<cli, kwargs, stdin, fileCfg, config, pidx, ctext, searchCalls,
                   spinner, searchVars, result, exc>>

\* "config = iface.Config(); config.load_file(...)"
LoadFile ==
    /\ pc = "main"
    /\ ~kwargs.appdirs
    /\ config' = load_file(NewConfig, fileCfg)
    /\ pc' = "verbosity"
    /\ UNCHANGED <<cli, kwargs, stdin, fileCfg, pidx, ctext, searchCalls, spinner,
                   searchVars, result, console, exc>>

\* The verbosity the command line asks for: None, or an integer.
CliVerbosity(kw) ==
    LET v0 == kw.verbose
        q == kw.quiet
        v1 == IF ~v0.some
              THEN (IF q.some THEN Some(0 - q.v) ELSE NoneInt)
              ELSE IF q.some THEN Some(v0.v - q.v) ELSE v0
    IN IF kw.greppable.some
       THEN (IF v1.some THEN Some(v1.v - GreppablePenalty) ELSE NoneInt)
       ELSE v1

\* "config.verbosity += verbosity"; adding None raises TypeError.
LoadVerbosity ==
    /\ pc = "verbosity"
    /\ LET v == CliVerbosity(kwargs)
       IN IF v.some
          THEN /\ config' = [config EXCEPT !.verbosity = @ + v.v]
               /\ pc' = "format"
               /\ UNCHANGED exc
          ELSE /\ Raise("TypeError")
               /\ UNCHANGED config
    /\ UNCHANGED <<cli, kwargs, stdin, fileCfg, pidx, ctext, searchCalls, spinner,
                   searchVars, result, console>>

\* "if kwargs['bytes'] is not None: config.update_format('bytes')"
UpdateFormat ==
    /\ pc = "format"
    /\ config' = IF kwargs.bytes.some THEN update_format(config, "bytes") ELSE config
    /\ pidx' = 1
    /\ pc' = "params"
    /\ UNCHANGED <<cli, kwargs, stdin, fileCfg, ctext, searchCalls, spinner,
                   searchVars, result, console, exc>>

\* Mutant of ParseParam: the key is split at its last dot (rsplit).
LastIndexOf(s, c) ==
    IF \E i \in 1..Len(s) : s[i] = c
    THEN CHOOSE i \in 1..Len(s) :
            s[i] = c /\ \A j \in (i + 1)..Len(s) : s[j] # c
    ELSE 0

ParseParam_LastDot(tok) ==
    LET kv == SplitOnce(tok, Equals)
        i == IF Len(kv) = 2 THEN LastIndexOf(kv[1], Dot) ELSE 0
    IN IF i = 0
       THEN [ok |-> FALSE, parent |-> <<>>, name |-> <<>>, value |-> <<>>]
       ELSE [ok |-> TRUE, parent |-> SubSeq(kv[1], 1, i - 1),
             name |-> SubSeq(kv[1], i + 1, Len(kv[1])), value |-> kv[2]]

\* "key, value = i.split('=', 1); parent, name = key.split('.', 1)":
\* [ok, parent, name, value]; ok is FALSE where the unpacking raises ValueError.
ParseParam(tok) ==
    LET kv == SplitOnce(tok, Equals)
    IN IF Len(kv) # 2 THEN [ok |-> FALSE, parent |-> <<>>, name |-> <<>>, value |-> <<>>]
       ELSE LET pn == SplitOnce(kv[1], Dot)
            IN IF Len(pn) # 2
               THEN [ok |-> FALSE, parent |-> <<>>, name |-> <<>>, value |-> <<>>]
               ELSE [ok |-> TRUE, parent |-> pn[1], name |-> pn[2], value |-> kv[2]]

\* Mutant of UpdateParam: a token that does not parse is skipped.
UpdateParam_SkipBad ==
    /\ pc = "params"
    /\ pidx <= Len(kwargs.param)
    /\ LET t == ParseParam(kwargs.param[pidx])
       IN config' = IF t.ok THEN update_param(config, t.parent, t.name, t.value)
                    ELSE config
    /\ pidx' = pidx + 1
    /\ UNCHANGED <<pc, exc, cli, kwargs, stdin, fileCfg, ctext, searchCalls,
                   spinner, searchVars, result, console>>

\* One iteration of "for i in params".
UpdateParam ==
    /\ pc = "params"
    /\ pidx <= Len(kwargs.param)
    /\ LET t == ParseParam(kwargs.param[pidx])
       IN IF t.ok
          THEN /\ config' = update_param(config, t.parent, t.name, t.value)
               /\ pidx' = pidx + 1
               /\ UNCHANGED <<pc, exc>>
          ELSE /\ Raise("ValueError")
               /\ UNCHANGED <<config, pidx>>
    /\ UNCHANGED <<cli, kwargs, stdin, fileCfg, ctext, searchCalls, spinner,
                   searchVars, result, console>>

\* "config.update('checker', ...); config.update('searcher', ...);
\*  config.update('default_dist', ...)"
UpdateRoles ==
    /\ pc = "params"
    /\ pidx > Len(kwargs.param)
    /\ config' = update(update(update(config, "checker", kwargs.checker),
                               "searcher", kwargs.searcher),
                        "default_dist", kwargs.default_dist)
    /\ pc' = "complete"
    /\ UNCHANGED <<cli, kwargs, stdin, fileCfg, pidx, ctext, searchCalls, spinner,
                   searchVars, result, console, exc>>

\* "config.complete_config()"
CompleteConfig ==
    /\ pc = "complete"
    /\ LET r == complete_config(config)
       IN IF r.err = ""
          THEN /\ config' = r.cfg
               /\ pc' = "text"
               /\ UNCHANGED exc
          ELSE /\ Raise(r.err)
               /\ UNCHANGED config
    /\ UNCHANGED <<cli, kwargs, stdin, fileCfg, pidx, ctext, searchCalls, spinner,
                   searchVars, result, console>>

\* Mutant of ChooseText: the file is consulted before -t.
ChooseText_FileFirst(kw) ==
    IF kw.file.some THEN kw.file
    ELSE IF kw.text.some THEN kw.text
    ELSE IF kw.text_stdin.some THEN kw.text_stdin
    ELSE NoneVal

\* "if kwargs['text'] is None: ..." : the input main will use, None when
\* there is none.
ChooseText(kw) ==
    IF kw.text.some THEN kw.text
    ELSE IF kw.file.some THEN kw.file
    ELSE IF kw.text_stdin.some THEN kw.text_stdin
    ELSE NoneVal

\* No input: the error line and the help menu are printed, ctx.exit() ends
\* the run.
LoadText ==
    /\ pc = "text"
    /\ LET t == ChooseText(kwargs)
       IN IF t.some
          THEN /\ kwargs' = [kwargs EXCEPT !.text = t]
               /\ pc' = "convert"
               /\ UNCHANGED console
          ELSE /\ console' = Append(console, [shape |-> "help", value |-> EmptyVal,
                                          path |-> <<>>])
               /\ pc' = "done"
               /\ UNCHANGED kwargs
    /\ UNCHANGED <<cli, stdin, fileCfg, config, pidx, ctext, searchCalls, spinner,
                   searchVars, result, exc>>

\* Mutant of ConvertInput: text is handed on as it is when bytes are asked for.
ConvertInput_NoEncode(fmt, text) ==
    IF fmt = text.kind \/ text.kind = "str" THEN [err |-> "", value |-> text]
    ELSE LET d == Utf8Decode(text.data)
         IN IF d.ok THEN [err |-> "", value |-> Val("str", d.data)]
            ELSE [err |-> "UnicodeDecodeError", value |-> text]

\* "if issubclass(config.objs['format'], type(kwargs['text'])): ... else: raise
\* TypeError": [err, value].
ConvertInput(fmt, text) ==
    IF fmt = text.kind THEN [err |-> "", value |-> text]
    ELSE IF fmt = "str" /\ text.kind = "bytes"
    THEN LET d == Utf8Decode(text.data)
         IN IF d.ok THEN [err |-> "", value |-> Val("str", d.data)]
            ELSE [err |-> "UnicodeDecodeError", value |-> text]
    ELSE IF fmt = "bytes" /\ text.kind = "str"
    THEN LET d == Utf8Encode(text.data)
         IN IF d.ok THEN [err |-> "", value |-> Val("bytes", d.data)]
            ELSE [err |-> "UnicodeEncodeError", value |-> text]
    ELSE [err |-> "TypeError", value |-> text]

ConvertText ==
    /\ pc = "convert"
    /\ LET r == ConvertInput(config.objs.format, kwargs.text.v)
       IN IF r.err = ""
          THEN /\ kwargs' = [kwargs EXCEPT !.text = Some(r.value)]
               /\ pc' = "decrypt"
               /\ UNCHANGED exc
          ELSE /\ Raise(r.err)
               /\ UNCHANGED kwargs
    /\ UNCHANGED <<cli, stdin, fileCfg, config, pidx, ctext, searchCalls, spinner,
                   searchVars, result, console>>

----
\* The searcher (ciphey.iface / the configured searcher plugin).

\* The configured Crackers, in application order; apply(value) is the
\* sequence of candidate outputs, empty when the cracker does not apply.
\* "trim" strips one symbol of padding (trailing, then leading candidate),
\* "rev" undoes a reversal.
Crackers == <<"trim", "rev">>

Reverse(d) == [i \in 1..Len(d) |-> d[Len(d) + 1 - i]]

Apply(name, v) ==
    IF name = "trim"
    THEN IF Len(v.data) >= 1
         THEN <<Val(v.kind, SubSeq(v.data, 1, Len(v.data) - 1)),
                Val(v.kind, Tail(v.data))>>
         ELSE <<>>
    ELSE IF Len(v.data) >= 2 THEN <<Val(v.kind, Reverse(v.data))>> ELSE <<>>

\* The configured Checker: the one-word dictionary is "a"; an empty value is
\* rejected; any other value scores the number of its letters "a".
Plain == <<97>>

check(v) ==
    IF v.data = Plain THEN [kind |-> "Accept", score |-> 0]
    ELSE IF v.data = <<>> THEN [kind |-> "Reject", score |-> 0]
    ELSE [kind |-> "Score",
          score |-> Cardinality({i \in 1..Len(v.data) : v.data[i] = 97})]

NoneRes == [some |-> FALSE, path |-> <<>>, finalValue |-> EmptyVal]
SearchResult(path, value) == [some |-> TRUE, path |-> path, finalValue |-> value]

\* DecodeSteps a cracker produces from a node's value.
StepsOf(name, v) ==
    [i \in 1..Len(Apply(name, v)) |->
        [name |-> name, input |-> v, result |-> [value |-> Apply(name, v)[i]]]]

ChildSteps(v) == StepsOf(Crackers[1], v) \o StepsOf(Crackers[2], v)

\* The values on a node's own path: its value and every step's input.
Ancestors(node) ==
    {node.value} \cup {node.path[i].input : i \in 1..Len(node.path)}

\* Frontier order: score descending, then path length ascending, then
\* insertion order.
Before(a, i, b, j) ==
    \/ a.score > b.score
    \/ a.score = b.score /\ Len(a.path) < Len(b.path)
    \/ a.score = b.score /\ Len(a.path) = Len(b.path) /\ i < j

BestIndex(fr) ==
    CHOOSE i \in 1..Len(fr) :
        \A j \in 1..Len(fr) : j # i => Before(fr[i], i, fr[j], j)

RemoveAt(s, i) == SubSeq(s, 1, i - 1) \o SubSeq(s, i + 1, Len(s))

\* Evaluate the children of an expanded node in order: Discard (cycle guard,
\* duplicate state, depth bound, Reject), Accept (stop) or Enqueue.
RECURSIVE Evaluate(_, _, _, _, _)
Evaluate(node, steps, i, fr, vis) ==
    IF i > Len(steps) THEN [acc |-> NoneRes, fr |-> fr, vis |-> vis]
    ELSE LET child == steps[i].result.value
             path == Append(node.path, steps[i])
             c == check(child)
         IN IF \/ child \in Ancestors(node)
               \/ \E e \in vis : e.value = child /\ e.depth <= Len(path)
               \/ Len(path) > MaxDepth
            THEN Evaluate(node, steps, i + 1, fr, vis)
            ELSE IF c.kind = "Accept"
            THEN [acc |-> SearchResult(path, child), fr |-> fr, vis |-> vis]
            ELSE LET vis2 == vis \cup {[value |-> child, depth |-> Len(path)]}
                 IN IF c.kind = "Reject"
                    THEN Evaluate(node, steps, i + 1, fr, vis2)
                    ELSE Evaluate(node, steps, i + 1,
                                  Append(fr, [value |-> child, path |-> path,
                                              score |-> c.score]),
                                  vis2)

\* search(ctext), entry: the root node is checked first.
SearchEntry(v) ==
    LET c == check(v)
    IN [acc |-> IF c.kind = "Accept" THEN SearchResult(<<>>, v) ELSE NoneRes,
        fr |-> IF c.kind = "Score"
               THEN <<[value |-> v, path |-> <<>>, score |-> c.score]>>
               ELSE <<>>,
        vis |-> {[value |-> v, depth |-> 0]}]

\* main: "result = decrypt(config, kwargs['text'])", with the spinner when the
\* verbosity is 0; decrypt: "res = config.objs['searcher'].search(ctext)".
Decrypt ==
    /\ pc = "decrypt"
    /\ spinner' = (config.verbosity = 0)
    /\ ctext' = kwargs.text.v
    /\ searchCalls' = searchCalls + 1
    /\ LET r == SearchEntry(kwargs.text.v)
       IN /\ frontier' = r.fr
          /\ visited' = r.vis
          /\ expanded' = 0
          /\ res' = r.acc
          /\ outcome' = IF r.acc.some THEN "accepted" ELSE "running"
          /\ pc' = IF r.acc.some THEN "returned" ELSE "search"
    /\ UNCHANGED <<cli, kwargs, stdin, fileCfg, config, pidx, result, console, exc>>

\* Expand the highest-priority node of the frontier.
Expand ==
    /\ pc = "search"
    /\ frontier # <<>>
    /\ expanded < MaxExpand
    /\ LET i == BestIndex(frontier)
           node == frontier[i]
           r == Evaluate(node, ChildSteps(node.value), 1,
                         RemoveAt(frontier, i), visited)
       IN /\ frontier' = r.fr
          /\ visited' = r.vis
          /\ expanded' = expanded + 1
          /\ res' = r.acc
          /\ outcome' = IF r.acc.some THEN "accepted" ELSE "running"
          /\ pc' = IF r.acc.some THEN "returned" ELSE "search"
    /\ UNCHANGED <<cli, kwargs, stdin, fileCfg, config, pidx, ctext, searchCalls,
                   spinner, result, console, exc>>

\* SearchExhausted: the frontier emptied or a bound was reached with no
\* Accept; search returns the absence value.
Exhausted ==
    /\ pc = "search"
    /\ frontier = <<>> \/ expanded >= MaxExpand
    /\ res' = NoneRes
    /\ outcome' = "exhausted"
    /\ pc' = "returned"
    /\ UNCHANGED <<cli, kwargs, stdin, fileCfg, config, pidx, ctext, searchCalls,
                   spinner, frontier, visited, expanded, result, console, exc>>

\* Cancelled: the caller's signal or timeout fires between two Expand calls;
\* the entry point returns "no solution / cancelled".
Cancel ==
    /\ pc = "search"
    /\ res' = NoneRes
    /\ outcome' = "cancelled"
    /\ pc' = "returned"
    /\ UNCHANGED <<cli, kwargs, stdin, fileCfg, config, pidx, ctext, searchCalls,
                   spinner, frontier, visited, expanded, result, console, exc>>

----
\* decrypt, after search returned, and the end of main.

Out(shape, value, path) == [shape |-> shape, value |-> value, path |-> path]
NoResult == Out("None", EmptyVal, <<>>)
FailedToCrack == Out("Failed to crack", EmptyVal, <<>>)
NoSolutionFound == Out("no solution found", EmptyVal, <<>>)

\* iface.pretty_search_results(res): the formatted full path.
pretty_search_results(r) == Out("path", r.finalValue, r.path)

\* Mutant of decrypt: the verbosity is tested before the absence value.
decrypt_VerbosityFirst(cfg, r) ==
    IF cfg.verbosity < VerbosityThreshold
    THEN IF r.path = <<>> THEN [err |-> "IndexError", value |-> NoResult]
         ELSE [err |-> "", value |-> Out("value", Last(r.path).result.value, <<>>)]
    ELSE IF ~r.some THEN [err |-> "", value |-> FailedToCrack]
    ELSE [err |-> "", value |-> pretty_search_results(r)]

\* decrypt(config, ctext), given what search returned: [err, value];
\* "res.path[-1]" raises IndexError on an empty path.
decrypt(cfg, r) ==
    IF ~r.some THEN [err |-> "", value |-> FailedToCrack]
    ELSE IF cfg.verbosity < VerbosityThreshold
    THEN IF r.path = <<>> THEN [err |-> "IndexError", value |-> NoResult]
         ELSE [err |-> "", value |-> Out("value", Last(r.path).result.value, <<>>)]
    ELSE [err |-> "", value |-> pretty_search_results(r)]

DecryptReturn ==
    /\ pc = "returned"
    /\ LET r == decrypt(config, res)
       IN IF r.err = ""
          THEN /\ result' = r.value
               /\ pc' = "print"
               /\ UNCHANGED exc
          ELSE /\ Raise(r.err)
               /\ UNCHANGED result
    /\ UNCHANGED <<cli, kwargs, stdin, fileCfg, config, pidx, ctext, searchCalls,
                   spinner, searchVars, console>>

\* "if result is None: result = ...; console.print(result)"
Printed(r) == IF r = NoResult THEN NoSolutionFound ELSE r

PrintResult ==
    /\ pc = "print"
    /\ console' = Append(console, Printed(result))
    /\ pc' = "done"
    /\ UNCHANGED <<cli, kwargs, stdin, fileCfg, config, pidx, ctext, searchCalls,
                   spinner, searchVars, result, exc>>

----
\* Inputs.

Opt(S, none) == {none} \cup {Some(x) : x \in S}

StrInputs ==
    {Val("str", d) : d \in {<<>>, <<97>>, <<97, 32>>, <<32, 97, 32>>,
                            <<32, 32>>, <<98, 97>>, <<233>>, <<55296>>}}

BytesInputs ==
    {Val("bytes", d) : d \in {<<97>>, <<32, 97>>, <<98, 98>>, <<195, 169>>,
                              <<195>>, <<255>>}}

StdinStreams ==
    {[isatty |-> t, content |-> c, pos |-> 0] :
        t \in BOOLEAN, c \in {<<>>, <<97, 10>>, <<32, 98, 97, 32, 10>>}}

TtyStdin == [isatty |-> TRUE, content |-> <<>>, pos |-> 0]

\* -p tokens: plugin.name=value, and tokens that are not of that form.
ParentPieces == {<<"p">>, <<"q">>}
NamePieces == {<<"n">>, <<"n", ".", "m">>}
ValuePieces == {<<"v", "=", "w">>, <<"v", ".", "w">>}

Tokens ==
    {p \o <<Dot>> \o n \o <<Equals>> \o v :
        p \in ParentPieces, n \in NamePieces, v \in ValuePieces}
    \cup {<<"p">>, <<"p", "=", "v">>, <<"p", "n", "=", "v", ".", "w">>,
          <<"=", "p", ".", "n">>}

SeqsUpTo(S, n) == UNION {[1..k -> S] : k \in 0..n}

NoFile ==
    [verbosity |-> NoneInt, format |-> NoneName, params |-> {},
     checker |-> NoneName, searcher |-> NoneName, default_dist |-> NoneName]

DefaultKw ==
    [text |-> NoneVal, quiet |-> NoneInt, greppable |-> NoneFlag,
     verbose |-> Some(0), checker |-> NoneName, config |-> NoneName,
     param |-> <<>>, searcher |-> NoneName, bytes |-> NoneFlag,
     default_dist |-> NoneName, appdirs |-> FALSE, file |-> NoneVal,
     text_stdin |-> NoneVal]

\* Runs that differ in where the input comes from and in the format.
KwInput ==
    {[DefaultKw EXCEPT !.text = t, !.file = f, !.text_stdin = a, !.bytes = b,
                       !.appdirs = ad, !.quiet = q] :
        t \in Opt({Val("str", <<97, 32>>), Val("str", <<233>>),
                   Val("str", <<55296>>)}, NoneVal),
        f \in Opt(BytesInputs, NoneVal),
        a \in Opt({Val("str", <<>>), Val("str", <<98, 97>>)}, NoneVal),
        b \in Opt({TRUE}, NoneFlag),
        ad \in BOOLEAN,
        q \in Opt({1}, NoneInt)}
    \cup {[DefaultKw EXCEPT !.config = Some(<<"f">>), !.file = f] :
            f \in Opt(BytesInputs, NoneVal)}

FileInput == {[NoFile EXCEPT !.format = f] : f \in Opt({"str", "bytes"}, NoneName)}

\* Runs that differ in verbosity.
KwVerb ==
    {[DefaultKw EXCEPT !.text = Some(t), !.verbose = Some(v), !.quiet = q,
                       !.greppable = g] :
        t \in StrInputs,
        v \in 0..MaxCount,
        q \in Opt(1..MaxCount, NoneInt),
        g \in Opt({TRUE}, NoneFlag)}

FileVerb ==
    {[NoFile EXCEPT !.verbosity = v] :
        v \in Opt({-1, 0, 1, GreppablePenalty - 1, GreppablePenalty,
                   GreppablePenalty + 1}, NoneInt)}

\* Runs that differ in configuration.
KwCfg ==
    {[DefaultKw EXCEPT !.text = Some(Val("str", <<97, 32>>)), !.param = ps,
                       !.checker = c, !.searcher = s, !.default_dist = d] :
        ps \in SeqsUpTo(Tokens, MaxParams),
        c \in Opt({PluginP, PluginQ}, NoneName),
        s \in Opt({PluginP}, NoneName),
        d \in Opt({<<"x">>}, NoneName)}

FileCfg ==
    {NoFile,
     [NoFile EXCEPT !.checker = Some(PluginP), !.default_dist = Some(<<"y">>),
                    !.params = {[parent |-> PluginP, name |-> <<"n">>,
                                 value |-> <<"f">>]}],
     [NoFile EXCEPT !.searcher = Some(PluginP), !.checker = Some(Ez),
                    !.params = {[parent |-> PluginQ, name |-> <<"n", ".", "m">>,
                                 value |-> <<"f">>],
                                [parent |-> PluginQ, name |-> <<"n">>,
                                 value |-> <<"g">>]}]}

InitWith(KW, ST, FC) ==
    /\ pc = "click"
    /\ cli \in KW
    /\ kwargs = cli
    /\ stdin \in ST
    /\ fileCfg \in FC
    /\ config = NewConfig
    /\ pidx = 1
    /\ ctext = EmptyVal
    /\ searchCalls = 0
    /\ spinner = FALSE
    /\ frontier = <<>>
    /\ visited = {}
    /\ expanded = 0
    /\ outcome = "none"
    /\ res = NoneRes
    /\ result = NoResult
    /\ console = <<>>
    /\ exc = ""

Init ==
    \/ InitWith(KwInput, StdinStreams, FileInput)
    \/ InitWith(KwVerb, {TtyStdin}, FileVerb)
    \/ InitWith(KwCfg, {TtyStdin}, FileCfg)

Next ==
    \/ GetName
    \/ AppDirs
    \/ LoadFile
    \/ LoadVerbosity
    \/ UpdateFormat
    \/ UpdateParam
    \/ UpdateRoles
    \/ CompleteConfig
    \/ LoadText
    \/ ConvertText
    \/ Decrypt
    \/ Expand
    \/ Exhausted
    \/ Cancel
    \/ DecryptReturn
    \/ PrintResult

Spec == Init /\ [][Next]_vars

----
\* Properties.

SearchReturned == searchCalls > 0 /\ pc # "search"
DecryptEnded == searchCalls > 0 /\ pc \notin {"search", "returned"}

\* C1: when search returns the absence value, decrypt returns the plain
\* "Failed to crack" message without raising and without touching a path, and
\* main prints exactly that message, whatever the verbosity.
C1_AbsenceIsPlainMessage ==
    (SearchReturned /\ ~res.some) =>
        /\ exc = ""
        /\ pc # "aborted"
        /\ pc \in {"print", "done"} => result = FailedToCrack
        /\ pc = "done" => console = <<FailedToCrack>>

C1_Witness ==
    /\ pc = "done"
    /\ outcome = "exhausted"
    /\ config.verbosity < VerbosityThreshold
    /\ console = <<FailedToCrack>>

C3_VerbosityDecidesShape ==
    (DecryptEnded /\ res.some) =>
        /\ exc = ""
        /\ config.verbosity >= 0 => result = Out("path", res.finalValue, res.path)
        /\ config.verbosity < 0 => result = Out("value", res.finalValue, <<>>)

\* Path validity: every step's input is the previous step's output (the
\* ciphertext for the first), every step's output is a candidate its cracker
\* produces from that input, and the last output is the final value.
Replays(start, path, final) ==
    /\ \A i \in 1..Len(path) :
        /\ path[i].input = IF i = 1 THEN start ELSE path[i - 1].result.value
        /\ \E k \in 1..Len(Apply(path[i].name, path[i].input)) :
              Apply(path[i].name, path[i].input)[k] = path[i].result.value
    /\ final = IF path = <<>> THEN start ELSE Last(path).result.value

\* C4: every SearchResult replays from the ciphertext to its final value, and
\* in quiet mode decrypt surfaces exactly that accepted plaintext, also when
\* the ciphertext itself was accepted with no decode step.
C4_QuietSurfacesPlaintext ==
    (SearchReturned /\ res.some) =>
        /\ Replays(ctext, res.path, res.finalValue)
        /\ check(res.finalValue).kind = "Accept"
        /\ (DecryptEnded /\ config.verbosity < VerbosityThreshold) =>
              /\ exc = ""
              /\ result = Out("value", res.finalValue, <<>>)

\* A token of the form plugin.name=value: its first "=" comes after a dot.
WellFormedToken(tok) ==
    \E j \in 1..Len(tok) :
        /\ tok[j] = Equals
        /\ \A k \in 1..(j - 1) : tok[k] # Equals
        /\ \E i \in 1..(j - 1) : tok[i] = Dot

ConfigErrors == {"ValueError", "UnknownPluginError", "InvalidParameterError"}

\* C5: search is invoked only after every configuration step has finished
\* and succeeded; a run whose configuration fails never invokes search.
C5_SearchOnlyAfterConfig ==
    /\ searchCalls > 0 =>
        /\ \A i \in 1..Len(cli.param) : WellFormedToken(cli.param[i])
        /\ pidx = Len(cli.param) + 1
        /\ cli.bytes.some => config.format = "bytes"
        /\ \A r \in {"checker", "searcher", "default_dist"} :
              cli[r].some => config[r] = cli[r].v
        /\ config.checker \in Registry /\ config.searcher \in Registry
        /\ \A e \in config.params :
              e.parent \in {config.checker, config.searcher}
                  => e.name \in Schema(e.parent)
        /\ config.objs = [format |-> config.format, checker |-> config.checker,
                          searcher |-> config.searcher]
    /\ exc \in ConfigErrors => searchCalls = 0

C5_Witness ==
    /\ searchCalls = 1
    /\ Len(cli.param) >= 1
    /\ cli.checker.some
    /\ fileCfg.params # {}

\* The parts of a well-formed token: the plugin is the segment before the
\* first dot, the value what follows the first "=".
TokenParent(tok) == SubSeq(tok, 1, IndexOf(tok, Dot) - 1)
TokenName(tok) == SubSeq(tok, IndexOf(tok, Dot) + 1, IndexOf(tok, Equals) - 1)
TokenValue(tok) == SubSeq(tok, IndexOf(tok, Equals) + 1, Len(tok))

ParamKeys ==
    {<<e.parent, e.name>> : e \in fileCfg.params}
        \cup {<<TokenParent(cli.param[i]), TokenName(cli.param[i])>> :
                i \in 1..Len(cli.param)}
        \cup (ParentPieces \X NamePieces)

\* The value the precedence rule gives a parameter: the last command-line
\* token for it, else the file's value, else the plugin's default.
ExpectedParam(owner, name) ==
    LET given == {i \in 1..Len(cli.param) :
                    /\ TokenParent(cli.param[i]) = owner
                    /\ TokenName(cli.param[i]) = name}
    IN IF given # {}
       THEN TokenValue(cli.param[CHOOSE i \in given : \A j \in given : j <= i])
       ELSE IF \E e \in fileCfg.params : e.parent = owner /\ e.name = name
       THEN (CHOOSE e \in fileCfg.params :
                e.parent = owner /\ e.name = name).value
       ELSE DefaultParam

ExpectedRole(r) ==
    IF cli[r].some THEN cli[r].v
    ELSE IF fileCfg[r].some THEN fileCfg[r].v
    ELSE NewConfig[r]

\* C6: when search starts, every role and every plugin parameter has the
\* command-line value if one was given, else the file's value, else the
\* built-in default; each token went to the plugin named before its first dot.
C6_CommandLineOverFileOverDefault ==
    searchCalls > 0 =>
        /\ \A r \in {"checker", "searcher", "default_dist"} :
              config[r] = ExpectedRole(r)
        /\ \A k \in ParamKeys :
              ParamInEffect(config, k[1], k[2]) = ExpectedParam(k[1], k[2])
        /\ \A e \in config.params : <<e.parent, e.name>> \in ParamKeys

C6_Witness ==
    /\ searchCalls = 1
    /\ fileCfg.checker.some /\ ~cli.checker.some
    /\ cli.default_dist.some /\ fileCfg.default_dist.some
    /\ \E e \in fileCfg.params :
          ParamInEffect(config, e.parent, e.name) # e.value
    /\ \E i \in 1..Len(cli.param) :
          IndexOf(TokenName(cli.param[i]), Dot) # 0

\* The input main selects: -t, else the file, else the positional/stdin text.
NoSource == ~cli.text.some /\ ~cli.file.some /\ ~kwargs.text_stdin.some

Source ==
    IF cli.text.some THEN cli.text.v
    ELSE IF cli.file.some THEN cli.file.v
    ELSE kwargs.text_stdin.v

\* v is w in the other representation: one is the UTF-8 encoding of the other.
Utf8Of(text, octets) ==
    /\ text.kind = "str" /\ octets.kind = "bytes"
    /\ Utf8Encode(text.data) = [ok |-> TRUE, data |-> octets.data]
    /\ Utf8Decode(octets.data) = [ok |-> TRUE, data |-> text.data]

Convertible(fmt, v) ==
    \/ v.kind = fmt
    \/ fmt = "str" /\ Utf8Decode(v.data).ok
    \/ fmt = "bytes" /\ Utf8Encode(v.data).ok

\* C7: the value handed to search has the configured representation; an
\* input in the other one was converted through UTF-8; an input that cannot
\* be converted ends the run before search is invoked.
C7_SearchGetsConfiguredFormat ==
    /\ searchCalls > 0 =>
        /\ ctext.kind = config.format
        /\ config.format \in {"str", "bytes"}
        /\ \/ ctext = Source
           \/ Utf8Of(ctext, Source)
           \/ Utf8Of(Source, ctext)
    /\ (pc \in {"decrypt", "search", "returned", "print"} \/ searchCalls > 0)
          => Convertible(config.format, Source)
    /\ exc \in {"UnicodeDecodeError", "UnicodeEncodeError", "TypeError"}
          => searchCalls = 0

C7_Witness ==
    /\ searchCalls = 1
    /\ Source.kind = "str"
    /\ config.format = "bytes"
    /\ Len(ctext.data) > Len(Source.data)

\* "config.verbosity += verbosity" has run.
VerbosityLoaded ==
    \/ pc \in {"format", "params", "complete", "text", "convert", "decrypt",
               "search", "returned", "print"}
    \/ searchCalls > 0

\* C8: with the greppable flag the effective verbosity is base + verbose -
\* quiet - 999, and a run that finds a solution prints only the final value.
C8_GreppablePrintsOnlyAnswer ==
    /\ VerbosityLoaded =>
          config.verbosity =
              (IF fileCfg.verbosity.some THEN fileCfg.verbosity.v ELSE 0)
              + cli.verbose.v
              - (IF cli.quiet.some THEN cli.quiet.v ELSE 0)
              - (IF cli.greppable.some THEN GreppablePenalty ELSE 0)
    /\ (cli.greppable.some /\ pc = "done" /\ res.some) =>
          console = <<Out("value", res.finalValue, <<>>)>>

\* C9: with no positional text and a standard input that is not a terminal,
\* get_name returns the whole piped content, stripped.
C9_StdinIsRead ==
    (pc # "click" /\ Falsy(cli.text_stdin) /\ ~stdin.isatty) =>
        kwargs.text_stdin = Some(Val("str", Strip(stdin.content)))

\* C10: the ciphertext comes from -t, else from the file, else from the
\* positional/stdin text; search is invoked at most once; with --appdirs or
\* with no input at all, main prints the location or the help and never
\* invokes search.
C10_InputPrecedence ==
    /\ searchCalls <= 1
    /\ searchCalls = 1 =>
        /\ ~cli.appdirs /\ ~NoSource
        /\ ctext = Source \/ Utf8Of(ctext, Source) \/ Utf8Of(Source, ctext)
    /\ (pc = "done" /\ cli.appdirs) =>
          console = <<Out("appdirs", EmptyVal, <<>>)>>
    /\ (pc = "done" /\ ~cli.appdirs /\ NoSource) =>
          console = <<Out("help", EmptyVal, <<>>)>>

C10_Witness ==
    /\ searchCalls = 1
    /\ cli.text.some /\ cli.file.some /\ kwargs.text_stdin.some
    /\ ctext = cli.text.v

====
